---- MODULE Spec2Model ----
(***************************************************************************)
(* Model of PropertySearchApp (src/property-search-app/src/App.jsx): the   *)
(* catalog fetch, the filter form and handleSearch, the favourites list    *)
(* with its localStorage snapshot, and drag and drop.                      *)
(*                                                                         *)
(* JavaScript strings that the code inspects (criteria, type, location)    *)
(* are sequences of one-character strings, so that toLowerCase, includes   *)
(* and parseInt are computed character by character.                       *)
(***************************************************************************)
EXTENDS Integers, Sequences, FiniteSets, TLC

(***************************************************************************)
(* Bounds of the model.                                                    *)
(***************************************************************************)
\* Number of properties of the pool that a fetched catalog holds.
NumProps == 3

(***************************************************************************)
(* JavaScript string primitives.                                           *)
(***************************************************************************)
DecDigits == <<"0", "1", "2", "3", "4", "5", "6", "7", "8", "9">>
HexLower  == <<"0", "1", "2", "3", "4", "5", "6", "7", "8", "9",
               "a", "b", "c", "d", "e", "f">>
HexUpper  == <<"0", "1", "2", "3", "4", "5", "6", "7", "8", "9",
               "A", "B", "C", "D", "E", "F">>
UpperCase == <<"A", "B", "C", "D", "E", "F", "G", "H", "I", "J", "K", "L", "M",
               "N", "O", "P", "Q", "R", "S", "T", "U", "V", "W", "X", "Y", "Z">>
LowerCase == <<"a", "b", "c", "d", "e", "f", "g", "h", "i", "j", "k", "l", "m",
               "n", "o", "p", "q", "r", "s", "t", "u", "v", "w", "x", "y", "z">>
WhiteSpace == {" ", "\t", "\n"}

\* Index of character c in table t, 0 when it is not there.
IndexOf(t, c) ==
    IF \E i \in DOMAIN t : t[i] = c
    THEN CHOOSE i \in DOMAIN t : t[i] = c
    ELSE 0

IsDigit(c) == IndexOf(DecDigits, c) # 0

\* String.prototype.toLowerCase
toLowerCase(s) ==
    [i \in DOMAIN s |->
        IF IndexOf(UpperCase, s[i]) # 0
        THEN LowerCase[IndexOf(UpperCase, s[i])]
        ELSE s[i]]

\* String.prototype.includes
includes(s, sub) ==
    \E i \in 1..(Len(s) + 1) :
        /\ i + Len(sub) - 1 <= Len(s)
        /\ SubSeq(s, i, i + Len(sub) - 1) = sub

\* Value of character c as a digit of the radix, -1 when it is none.
DigitValue(c, radix) ==
    IF radix = 16
    THEN IF IndexOf(HexLower, c) # 0 THEN IndexOf(HexLower, c) - 1
         ELSE IF IndexOf(HexUpper, c) # 0 THEN IndexOf(HexUpper, c) - 1
         ELSE -1
    ELSE IndexOf(DecDigits, c) - 1

\* s without its leading white space.
RECURSIVE TrimStart(_)
TrimStart(s) ==
    IF s # <<>> /\ Head(s) \in WhiteSpace THEN TrimStart(Tail(s)) ELSE s

\* Length of the longest prefix of s made of digits of the radix.
RECURSIVE DigitPrefixLen(_, _)
DigitPrefixLen(s, radix) ==
    IF s # <<>> /\ DigitValue(Head(s), radix) >= 0
    THEN 1 + DigitPrefixLen(Tail(s), radix)
    ELSE 0

\* Number denoted by a string of digits of the radix.
RECURSIVE DigitsValue(_, _)
DigitsValue(s, radix) ==
    IF s = <<>> THEN 0
    ELSE DigitsValue(SubSeq(s, 1, Len(s) - 1), radix) * radix
         + DigitValue(s[Len(s)], radix)

NaN == [nan |-> TRUE, val |-> 0]
Num(n) == [nan |-> FALSE, val |-> n]

\* parseInt(s) with no radix argument: leading white space is skipped, a sign
\* is read, a 0x or 0X prefix selects radix 16, and the longest run of digits
\* is converted; whatever follows it is ignored. No digit at all gives NaN.
parseInt(s) ==
    LET t      == TrimStart(s)
        signed == t # <<>> /\ Head(t) \in {"+", "-"}
        sign   == IF signed /\ Head(t) = "-" THEN -1 ELSE 1
        u      == IF signed THEN Tail(t) ELSE t
        hex    == Len(u) >= 2 /\ u[1] = "0" /\ u[2] \in {"x", "X"}
        radix  == IF hex THEN 16 ELSE 10
        v      == IF hex THEN SubSeq(u, 3, Len(u)) ELSE u
        n      == DigitPrefixLen(v, radix)
    IN  IF n = 0 THEN NaN
        ELSE Num(sign * DigitsValue(SubSeq(v, 1, n), radix))

\* The relational operators of JavaScript on a number and a parseInt result:
\* every comparison with NaN is false.
GreaterEq(x, y) == ~y.nan /\ x >= y.val
LessEq(x, y)    == ~y.nan /\ x <= y.val

\* Truthiness of a string: only the empty string is falsy.
Truthy(s) == s # <<>>

(***************************************************************************)
(* The value an <input type="number"> reports: the typed text when it is   *)
(* a valid floating-point number, the empty string otherwise.              *)
(***************************************************************************)
AllDigits(s) == \A i \in DOMAIN s : IsDigit(s[i])

IsExponent(s) ==
    \/ s = <<>>
    \/ /\ Len(s) >= 2
       /\ s[1] \in {"e", "E"}
       /\ LET r == IF s[2] \in {"+", "-"} THEN SubSeq(s, 3, Len(s))
                   ELSE SubSeq(s, 2, Len(s))
          IN  r # <<>> /\ AllDigits(r)

IsFraction(s) ==
    \/ s = <<>>
    \/ Len(s) >= 2 /\ s[1] = "." /\ AllDigits(SubSeq(s, 2, Len(s)))

IsValidFloat(s) ==
    LET u == IF s # <<>> /\ Head(s) = "-" THEN Tail(s) ELSE s
    IN  \E i \in 0..Len(u) : \E j \in i..Len(u) :
            /\ AllDigits(SubSeq(u, 1, i))
            /\ IsFraction(SubSeq(u, i + 1, j))
            /\ IsExponent(SubSeq(u, j + 1, Len(u)))
            /\ j > 0

NumberInputValue(text) == IF IsValidFloat(text) THEN text ELSE <<>>

(***************************************************************************)
(* Property records and the catalogs /properties.json can hold.            *)
(***************************************************************************)
House     == <<"H", "o", "u", "s", "e">>
Flat      == <<"F", "l", "a", "t">>
Apartment == <<"A", "p", "a", "r", "t", "m", "e", "n", "t">>
Bungalow  == <<"B", "u", "n", "g", "a", "l", "o", "w">>

\* images: present is FALSE when the record has no images key.
Images(urls) == [present |-> TRUE, urls |-> urls]
NoImages     == [present |-> FALSE, urls |-> <<>>]

\* The properties of the fixture, in file order; a catalog holds the first
\* NumProps of them.
Pool ==
    << [id |-> 7, type |-> House, price |-> 100000, bedrooms |-> 3,
        location |-> <<"N", "W", "1">>,
        images |-> Images(<<"7a.jpg", "7b.jpg", "7c.jpg">>)],
       [id |-> 8, type |-> Flat, price |-> 250000, bedrooms |-> 2,
        location |-> <<"B", "R", "5">>, images |-> NoImages],
       [id |-> 9, type |-> <<"h", "o", "u", "s", "e">>, price |-> 400000,
        bedrooms |-> 4, location |-> <<"n", "w", "3">>, images |-> Images(<<>>)],
       [id |-> 10, type |-> Bungalow, price |-> 50000, bedrooms |-> 1,
        location |-> <<"B", "R", "6">>, images |-> Images(<<"10a.jpg">>)] >>

\* data.properties of a successful fetch.
Catalogs == { SubSeq(Pool, 1, NumProps) }

\* /properties.json after an edit of the file: property 7 has a new price.
PoolRepriced ==
    [i \in DOMAIN Pool |->
        IF Pool[i].id = 7 THEN [Pool[i] EXCEPT !.price = 120000] ELSE Pool[i]]

\* data.properties of the fetches of several visits, the file edited between
\* two of them.
CatalogsOverTime == Catalogs \cup { SubSeq(PoolRepriced, 1, NumProps) }

(***************************************************************************)
(* JSON.stringify and JSON.parse of the favourites list. The text is a     *)
(* list of objects; an object holds the keys the record has, so a record   *)
(* without images has no images member.                                    *)
(***************************************************************************)
EncodeObject(p) ==
    IF p.images.present
    THEN [id |-> p.id, type |-> p.type, price |-> p.price, bedrooms |-> p.bedrooms,
          location |-> p.location, images |-> p.images.urls]
    ELSE [id |-> p.id, type |-> p.type, price |-> p.price, bedrooms |-> p.bedrooms,
          location |-> p.location]

DecodeObject(o) ==
    [id |-> o.id, type |-> o.type, price |-> o.price, bedrooms |-> o.bedrooms,
     location |-> o.location,
     images |-> IF "images" \in DOMAIN o THEN Images(o.images) ELSE NoImages]

\* A JSON value that is not a list of property records (a number, null, an
\* object, a list of numbers) is held as a list of one marker record.
NotAList(what) == <<[notAList |-> what]>>

\* favs is a list of property records.
IsListOfRecords(favs) == \A i \in DOMAIN favs : "id" \in DOMAIN favs[i]

JsonStringify(favs) ==
    IF IsListOfRecords(favs)
    THEN [json |-> [i \in DOMAIN favs |-> EncodeObject(favs[i])]]
    ELSE [other |-> favs[1].notAList]

\* JSON.parse: ok is FALSE when it throws SyntaxError.
JsonParse(text) ==
    IF "json" \in DOMAIN text
    THEN [ok |-> TRUE, value |-> [i \in DOMAIN text.json |-> DecodeObject(text.json[i])]]
    ELSE IF "other" \in DOMAIN text
    THEN [ok |-> TRUE, value |-> NotAList(text.other)]
    ELSE [ok |-> FALSE, value |-> <<>>]

\* localStorage.getItem gives null when the entry does not exist.
Absent      == [absent |-> TRUE]
\* An entry whose text is not JSON.
Unparseable == [garbage |-> TRUE]

\* What localStorage can hold under 'propertyFavourites' before the
\* application has ever written it.
InitialStorage == {Absent, Unparseable}

\* Entries that are JSON but no snapshot of a favourites list: the texts
\* 5, null, {"a":1} and [1].
ForeignStorage ==
    { [other |-> "number"], [other |-> "null"], [other |-> "object"],
      [other |-> "listOfNumbers"] }

(***************************************************************************)
(* State.                                                                  *)
(***************************************************************************)
VARIABLES
    properties,          \* useState([])                       App.jsx:21
    filteredProperties,  \* useState([])                       App.jsx:22
    favourites,          \* useState([])                       App.jsx:23
    selectedProperty,    \* useState(null)                     App.jsx:24
    draggedProperty,     \* useState(null)                     App.jsx:25
    loading,             \* useState(true)                     App.jsx:26
    error,               \* useState(null)                     App.jsx:27
    filters,             \* useState({type: '', ...})          App.jsx:30
    currentImageIndex,   \* PropertyDetail useState(0)         App.jsx:458
    activeTab,           \* PropertyDetail useState('description') App.jsx:459
    storage,             \* localStorage entry 'propertyFavourites'
    dragging,            \* the browser's drag session: "none", "app", "foreign"
    lastEvent            \* the event handled last

vars == <<properties, filteredProperties, favourites, selectedProperty,
          draggedProperty, loading, error, filters, currentImageIndex,
          activeTab, storage, dragging, lastEvent>>

searchVars == <<properties, filteredProperties, filters>>
fetchVars  == <<loading, error>>
favVars    == <<favourites, storage>>
dragVars   == <<draggedProperty, dragging>>
detailVars == <<selectedProperty, currentImageIndex, activeTab>>

Null    == [isNull |-> TRUE]
NoError == "null"
ErrorMessage == "Failed to load properties. Please ensure properties.json exists in the public folder."

EmptyFilters == [type |-> <<>>, minPrice |-> <<>>, maxPrice |-> <<>>,
                 bedrooms |-> <<>>, location |-> <<>>]

\* Which of the four returns of the component renders. The main view reads
\* favourites.length and calls favourites.map, and each favourites item reads
\* property.price.toLocaleString(): with a favourites that is no list of
\* records the render throws TypeError, and with no error boundary around it
\* the whole tree unmounts.
View ==
    IF selectedProperty # Null THEN "detail"
    ELSE IF loading THEN "loading"
    ELSE IF error # NoError THEN "error"
    ELSE IF ~IsListOfRecords(favourites) THEN "crashed"
    ELSE "main"

\* A click in the main view: the main view is rendered and no drag is going on.
MainIdle == View = "main" /\ dragging = "none"

Range(s) == { s[i] : i \in DOMAIN s }

(***************************************************************************)
(* handleSearch.                                                           *)
(***************************************************************************)
TypeMatches(p, f)     == toLowerCase(p.type) = toLowerCase(f.type)
MinPriceMatches(p, f) == GreaterEq(p.price, parseInt(f.minPrice))
MaxPriceMatches(p, f) == LessEq(p.price, parseInt(f.maxPrice))
BedroomsMatch(p, f)   == GreaterEq(p.bedrooms, parseInt(f.bedrooms))
LocationMatches(p, f) == includes(toLowerCase(p.location), toLowerCase(f.location))

\* A mutant of SearchResults: the later filters start from the catalog again.
SearchResultsLastOnly(props, f) ==
    IF Truthy(f.location) THEN SelectSeq(props, LAMBDA p : LocationMatches(p, f))
    ELSE IF Truthy(f.bedrooms) THEN SelectSeq(props, LAMBDA p : BedroomsMatch(p, f))
    ELSE IF Truthy(f.maxPrice) THEN SelectSeq(props, LAMBDA p : MaxPriceMatches(p, f))
    ELSE IF Truthy(f.minPrice) THEN SelectSeq(props, LAMBDA p : MinPriceMatches(p, f))
    ELSE IF Truthy(f.type) THEN SelectSeq(props, LAMBDA p : TypeMatches(p, f))
    ELSE props

\* The list handleSearch hands to setFilteredProperties.
SearchResults(props, f) ==
    LET r0 == props
        r1 == IF Truthy(f.type)
              THEN SelectSeq(r0, LAMBDA p : TypeMatches(p, f)) ELSE r0
        r2 == IF Truthy(f.minPrice)
              THEN SelectSeq(r1, LAMBDA p : MinPriceMatches(p, f)) ELSE r1
        r3 == IF Truthy(f.maxPrice)
              THEN SelectSeq(r2, LAMBDA p : MaxPriceMatches(p, f)) ELSE r2
        r4 == IF Truthy(f.bedrooms)
              THEN SelectSeq(r3, LAMBDA p : BedroomsMatch(p, f)) ELSE r3
        r5 == IF Truthy(f.location)
              THEN SelectSeq(r4, LAMBDA p : LocationMatches(p, f)) ELSE r4
    IN  r5

(***************************************************************************)
(* The favourites handlers. Each gives the call of setFavourites it makes: *)
(* called is FALSE when it makes none.                                     *)
(***************************************************************************)
Set(value) == [called |-> TRUE, value |-> value]
NoSet      == [called |-> FALSE, value |-> <<>>]

\* favourites.find(f => f.id === id), favourites.some(f => f.id === id)
IsFavourite(favs, id) == \E i \in DOMAIN favs : favs[i].id = id

addToFavourites(favs, property) ==
    IF ~IsFavourite(favs, property.id)
    THEN Set(Append(favs, property))
    ELSE NoSet

\* A mutant of removeFromFavourites: the filter keeps what it should drop.
removeFromFavouritesInverted(favs, id) ==
    Set(SelectSeq(favs, LAMBDA f : f.id = id))

removeFromFavourites(favs, id) == Set(SelectSeq(favs, LAMBDA f : f.id # id))

\* A mutant of onToggleFavourite: the heart only ever adds.
onToggleFavouriteAddOnly(favs, property) == addToFavourites(favs, property)

\* onToggleFavourite of a card and of the detail view.
onToggleFavourite(favs, property) ==
    IF IsFavourite(favs, property.id)
    THEN removeFromFavourites(favs, property.id)
    ELSE addToFavourites(favs, property)

\* A mutant of handleDropOnFavourites: the duplicate check is missing.
handleDropOnFavouritesUnchecked(favs, dragged) ==
    IF dragged # Null THEN Set(Append(favs, dragged)) ELSE NoSet

handleDropOnFavourites(favs, dragged) ==
    IF dragged # Null /\ ~IsFavourite(favs, dragged.id)
    THEN Set(Append(favs, dragged))
    ELSE NoSet

handleDropRemove(favs, dragged) ==
    IF dragged # Null THEN removeFromFavourites(favs, dragged.id) ELSE NoSet

\* Two handlers of one event both read the state of the last render; of their
\* calls of setFavourites the later one is the state of the next render.
LastCall(first, second) == IF second.called THEN second ELSE first

\* A drop on the remove zone runs handleDropRemove and then, as the event
\* bubbles to the favourites card around the zone, handleDropOnFavourites.
DropOnRemoveZoneCalls(favs, dragged) ==
    LastCall(handleDropRemove(favs, dragged), handleDropOnFavourites(favs, dragged))

\* The next render's favourites after the handlers of an event.
NextFavourites(favs, call) == IF call.called THEN call.value ELSE favs

\* A mutant of SaveEffect: an emptied list is not written.
SaveEffectNonEmpty(stored, call) ==
    IF call.called /\ call.value # <<>> THEN JsonStringify(call.value) ELSE stored

\* The save effect runs after a render whose favourites is a new array, that
\* is after every call of setFavourites, and writes the whole list.
SaveEffect(stored, call) ==
    IF call.called THEN JsonStringify(call.value) ELSE stored

(***************************************************************************)
(* Mounting: the load effect and the save effect.                          *)
(***************************************************************************)
\* A mutant of LoadFavourites: the effects run twice before the first
\* re-render, the second load reading what the first save wrote.
LoadFavouritesTwice(saved) == Set(<<>>)

\* The load effect: saved is what getItem returns.
LoadFavourites(saved) ==
    IF saved # Absent
    THEN IF JsonParse(saved).ok THEN Set(JsonParse(saved).value) ELSE NoSet
    ELSE NoSet

\* The state once the mount effects and the re-render they cause are done:
\* the save effect first writes the initial empty list, then the loaded one.
Mounted(saved) ==
    LET call == LoadFavourites(saved)
    IN  [favourites |-> NextFavourites(<<>>, call),
         storage    |-> SaveEffect(JsonStringify(<<>>), call)]

(***************************************************************************)
(* Initial state: the component mounted on a fresh page.                   *)
(***************************************************************************)
InitFrom(entries) ==
    \E saved \in entries :
        /\ properties = <<>>
        /\ filteredProperties = <<>>
        /\ favourites = Mounted(saved).favourites
        /\ selectedProperty = Null
        /\ draggedProperty = Null
        /\ loading = TRUE
        /\ error = NoError
        /\ filters = EmptyFilters
        /\ currentImageIndex = 0
        /\ activeTab = "description"
        /\ storage = Mounted(saved).storage
        /\ dragging = "none"
        /\ lastEvent = "mount"

Init == InitFrom(InitialStorage)

\* The component mounted on a page whose entry may have been written by
\* something else.
InitForeign == InitFrom(InitialStorage \cup ForeignStorage)

\* The page is loaded again (the browser's reload, or the Retry button of the
\* error view): every state of the component starts over, localStorage stays.
Reload ==
    /\ properties' = <<>>
    /\ filteredProperties' = <<>>
    /\ favourites' = Mounted(storage).favourites
    /\ selectedProperty' = Null
    /\ draggedProperty' = Null
    /\ loading' = TRUE
    /\ error' = NoError
    /\ filters' = EmptyFilters
    /\ currentImageIndex' = 0
    /\ activeTab' = "description"
    /\ storage' = Mounted(storage).storage
    /\ dragging' = "none"
    /\ lastEvent' = "reload"

(***************************************************************************)
(* The fetch of /properties.json.                                          *)
(***************************************************************************)
\* A mutant of FetchSuccess: setFilteredProperties is not called.
FetchSuccessCatalogOnly(catalog) ==
    /\ loading
    /\ properties' = catalog
    /\ loading' = FALSE
    /\ lastEvent' = "fetchSuccess"
    /\ UNCHANGED <<filteredProperties, error, filters, favVars, dragVars,
                   detailVars>>

FetchSuccess(catalog) ==
    /\ loading
    /\ properties' = catalog
    /\ filteredProperties' = catalog
    /\ loading' = FALSE
    /\ lastEvent' = "fetchSuccess"
    /\ UNCHANGED <<error, filters, favVars, dragVars, detailVars>>

\* A response that is not ok, a network failure, or a body that is not JSON.
FetchFailure ==
    /\ loading
    /\ error' = ErrorMessage
    /\ loading' = FALSE
    /\ lastEvent' = "fetchFailure"
    /\ UNCHANGED <<searchVars, favVars, dragVars, detailVars>>

(***************************************************************************)
(* The search form.                                                        *)
(***************************************************************************)
\* The options of the two selects.
TypeOptions     == {<<>>, House, Flat, Apartment, Bungalow}
BedroomOptions  == {<<>>, <<"1">>, <<"2">>, <<"3">>, <<"4">>, <<"5">>}

\* A mutant of SetFilters: the search runs on every change of a field.
SetFiltersAndSearch(f) ==
    /\ MainIdle
    /\ filters' = f
    /\ filteredProperties' = SearchResults(properties, f)
    /\ lastEvent' = "changeFilter"
    /\ UNCHANGED <<properties, fetchVars, favVars, dragVars, detailVars>>

\* onChange of a field of the form: setFilters({...filters, field: value}).
SetFilters(f) ==
    /\ MainIdle
    /\ filters' = f
    /\ lastEvent' = "changeFilter"
    /\ UNCHANGED <<properties, filteredProperties, fetchVars, favVars, dragVars,
                   detailVars>>

ChangeType(v)      == SetFilters([filters EXCEPT !.type = v])
ChangeMinPrice(t)  == SetFilters([filters EXCEPT !.minPrice = NumberInputValue(t)])
ChangeMaxPrice(t)  == SetFilters([filters EXCEPT !.maxPrice = NumberInputValue(t)])
ChangeBedrooms(v)  == SetFilters([filters EXCEPT !.bedrooms = v])
ChangeLocation(t)  == SetFilters([filters EXCEPT !.location = t])

\* A mutant of HandleSearch: the search narrows the list that is shown.
HandleSearchShown ==
    /\ MainIdle
    /\ filteredProperties' = SearchResults(filteredProperties, filters)
    /\ lastEvent' = "search"
    /\ UNCHANGED <<properties, filters, fetchVars, favVars, dragVars, detailVars>>

HandleSearch ==
    /\ MainIdle
    /\ filteredProperties' = SearchResults(properties, filters)
    /\ lastEvent' = "search"
    /\ UNCHANGED <<properties, filters, fetchVars, favVars, dragVars, detailVars>>

\* A mutant of ResetValues: the filtered list is left as it is.
ResetValuesKeepList(props, shown) ==
    [filters |-> EmptyFilters, filteredProperties |-> shown]

\* What handleReset sets.
ResetValues(props, shown) ==
    [filters |-> EmptyFilters, filteredProperties |-> props]

HandleReset ==
    /\ MainIdle
    /\ filters' = ResetValues(properties, filteredProperties).filters
    /\ filteredProperties' = ResetValues(properties, filteredProperties).filteredProperties
    /\ lastEvent' = "reset"
    /\ UNCHANGED <<properties, fetchVars, favVars, dragVars, detailVars>>

(***************************************************************************)
(* Favourites by click.                                                    *)
(***************************************************************************)
\* The handlers of an event have made `call`; the render and the save effect
\* that follow.
Commit(call) ==
    /\ favourites' = NextFavourites(favourites, call)
    /\ storage' = SaveEffect(storage, call)

\* The heart button of a card of the results grid.
ToggleFavouriteCard(property) ==
    /\ MainIdle
    /\ property \in Range(filteredProperties)
    /\ Commit(onToggleFavourite(favourites, property))
    /\ lastEvent' = "toggleCard"
    /\ UNCHANGED <<searchVars, fetchVars, dragVars, detailVars>>

\* The X button of an item of the favourites list.
RemoveButton(property) ==
    /\ MainIdle
    /\ property \in Range(favourites)
    /\ Commit(removeFromFavourites(favourites, property.id))
    /\ lastEvent' = "removeButton"
    /\ UNCHANGED <<searchVars, fetchVars, dragVars, detailVars>>

\* Clear All, rendered when the list is not empty; confirmed is the answer
\* to window.confirm.
\* clearFavourites without the window.confirm question.
clearFavouritesUnasked(confirmed) == Set(<<>>)

\* clearFavourites: confirmed is what window.confirm returned.
clearFavourites(confirmed) == IF confirmed THEN Set(<<>>) ELSE NoSet

ClearFavourites(confirmed) ==
    /\ MainIdle
    /\ Len(favourites) > 0
    /\ Commit(clearFavourites(confirmed))
    /\ lastEvent' = IF confirmed THEN "clearConfirmed" ELSE "clearDeclined"
    /\ UNCHANGED <<searchVars, fetchVars, dragVars, detailVars>>

(***************************************************************************)
(* Drag and drop.                                                          *)
(***************************************************************************)
HandleDragStart(property) ==
    /\ MainIdle
    /\ draggedProperty' = property
    /\ dragging' = "app"
    /\ lastEvent' = "dragStart"
    /\ UNCHANGED <<searchVars, fetchVars, favVars, detailVars>>

\* A drag that starts on a card of the results grid.
DragStartCard(property) ==
    property \in Range(filteredProperties) /\ HandleDragStart(property)

\* A drag that starts on an item of the favourites list.
DragStartFavourite(property) ==
    property \in Range(favourites) /\ HandleDragStart(property)

\* A drag of something that has no onDragStart (a file, selected text): no
\* handler runs.
DragStartForeign ==
    /\ MainIdle
    /\ dragging' = "foreign"
    /\ lastEvent' = "dragStartForeign"
    /\ UNCHANGED <<searchVars, fetchVars, favVars, draggedProperty, detailVars>>

\* A drop on the favourites card outside its remove zone.
DropOnFavourites ==
    /\ View = "main"
    /\ dragging # "none"
    /\ Commit(handleDropOnFavourites(favourites, draggedProperty))
    /\ draggedProperty' = Null
    /\ dragging' = "none"
    /\ lastEvent' = "dropOnFavourites"
    /\ UNCHANGED <<searchVars, fetchVars, detailVars>>

\* A drop on the remove zone, which lies inside the favourites card.
DropOnRemoveZone ==
    /\ View = "main"
    /\ dragging # "none"
    /\ Commit(DropOnRemoveZoneCalls(favourites, draggedProperty))
    /\ draggedProperty' = Null
    /\ dragging' = "none"
    /\ lastEvent' = "dropOnRemoveZone"
    /\ UNCHANGED <<searchVars, fetchVars, detailVars>>

\* The drag ends anywhere else, or is cancelled: no element has an onDragEnd
\* and no handler runs.
DragEnd ==
    /\ View = "main"
    /\ dragging # "none"
    /\ dragging' = "none"
    /\ lastEvent' = "dragEnd"
    /\ UNCHANGED <<searchVars, fetchVars, favVars, draggedProperty, detailVars>>

(***************************************************************************)
(* The detail view.                                                        *)
(***************************************************************************)
\* setSelectedProperty(property): PropertyDetail mounts with its own state.
Select(property) ==
    /\ MainIdle
    /\ selectedProperty' = property
    /\ currentImageIndex' = 0
    /\ activeTab' = "description"
    /\ lastEvent' = "select"
    /\ UNCHANGED <<searchVars, fetchVars, favVars, dragVars>>

\* View Details of a card.
SelectFromCard(property) ==
    property \in Range(filteredProperties) /\ Select(property)

\* A click on the content of a favourites item.
SelectFromFavourite(property) ==
    property \in Range(favourites) /\ Select(property)

\* A mutant of Back: going back also runs handleReset.
BackAndReset ==
    /\ View = "detail"
    /\ selectedProperty' = Null
    /\ currentImageIndex' = 0
    /\ activeTab' = "description"
    /\ lastEvent' = "back"
    /\ filters' = EmptyFilters
    /\ filteredProperties' = properties
    /\ UNCHANGED <<properties, fetchVars, favVars, dragVars>>

\* Back to Search: PropertyDetail unmounts.
Back ==
    /\ View = "detail"
    /\ selectedProperty' = Null
    /\ currentImageIndex' = 0
    /\ activeTab' = "description"
    /\ lastEvent' = "back"
    /\ UNCHANGED <<searchVars, fetchVars, favVars, dragVars>>

\* The heart button of the detail view.
ToggleFavouriteDetail ==
    /\ View = "detail"
    /\ Commit(onToggleFavourite(favourites, selectedProperty))
    /\ lastEvent' = "toggleDetail"
    /\ UNCHANGED <<searchVars, fetchVars, dragVars, detailVars>>

(***************************************************************************)
(* The gallery and the tabs of the detail view. Indices count from 0 as in *)
(* the source; the element of index i of a list is the (i+1)-th.           *)
(***************************************************************************)
DefaultImage == "/images/default.jpg"

\* What an <img> shows for src={undefined}: no image.
Undefined == "undefined"

\* array[index]
ElementAt(array, index) ==
    IF index \in 0..(Len(array) - 1) THEN array[index + 1] ELSE Undefined

\* a % b of two integers, b not 0: the sign is the sign of a.
Remainder(a, b) == IF a >= 0 THEN a % b ELSE 0 - ((0 - a) % b)

\* const images = property.images || ['/images/default.jpg']: an array, the
\* empty one too, is truthy.
DetailImages(property) ==
    IF property.images.present THEN property.images.urls ELSE <<DefaultImage>>

\* const imageUrl = property.images?.[0] || '/images/default.jpg'
CardImage(property) ==
    IF property.images.present /\ ElementAt(property.images.urls, 0) # Undefined
    THEN ElementAt(property.images.urls, 0)
    ELSE DefaultImage

\* src of the gallery's main image.
DisplayedImage == ElementAt(DetailImages(selectedProperty), currentImageIndex)

\* images.length > 1: the two arrow buttons, the counter and the thumbnails.
ControlsShown == Len(DetailImages(selectedProperty)) > 1

\* A mutant of nextImage: no wrap at the end.
nextImageUnwrapped(index, length) == index + 1

nextImage(index, length) == Remainder(index + 1, length)

\* A mutant of prevImage: the length is not added before the remainder.
prevImageUnshifted(index, length) == Remainder(index - 1, length)

prevImage(index, length) == Remainder(index - 1 + length, length)

SetCurrentImageIndex(index, event) ==
    /\ View = "detail"
    /\ ControlsShown
    /\ currentImageIndex' = index
    /\ lastEvent' = event
    /\ UNCHANGED <<searchVars, fetchVars, favVars, dragVars, selectedProperty,
                   activeTab>>

NextImage ==
    SetCurrentImageIndex(
        nextImage(currentImageIndex, Len(DetailImages(selectedProperty))),
        "nextImage")

PrevImage ==
    SetCurrentImageIndex(
        prevImage(currentImageIndex, Len(DetailImages(selectedProperty))),
        "prevImage")

\* The indices of images.map((img, index) => ...).
ThumbnailIndices ==
    IF selectedProperty = Null
    THEN {}
    ELSE 0..(Len(DetailImages(selectedProperty)) - 1)

\* A click on the thumbnail of an index.
ThumbnailClick(index) == SetCurrentImageIndex(index, "thumbnail")

Tabs == {"description", "floorplan", "map"}

SetActiveTab(tab) ==
    /\ View = "detail"
    /\ activeTab' = tab
    /\ lastEvent' = "tab"
    /\ UNCHANGED <<searchVars, fetchVars, favVars, dragVars, selectedProperty,
                   currentImageIndex>>

(***************************************************************************)
(* Specifications.                                                         *)
(***************************************************************************)
\* What is typed into the price inputs and the location input.
PriceTexts    == { <<>>, <<"1", "5", "0", "0", "0", "0">>,
                   <<"2", "5", "0", "0", "0", "0">>, <<"3", "e", "5">>,
                   <<".", "5">>, <<"a", "b", "c">> }
LocationTexts == { <<>>, <<"n", "w">>, <<"B", "R">>, <<"x">> }

Startup ==
    \/ \E catalog \in Catalogs : FetchSuccess(catalog)
    \/ FetchFailure
    \/ Reload

Favouriting ==
    \/ \E property \in Range(filteredProperties) : ToggleFavouriteCard(property)
    \/ \E property \in Range(favourites) : RemoveButton(property)
    \/ \E confirmed \in BOOLEAN : ClearFavourites(confirmed)
    \/ ToggleFavouriteDetail

DragAndDrop ==
    \/ \E property \in Range(filteredProperties) : DragStartCard(property)
    \/ \E property \in Range(favourites) : DragStartFavourite(property)
    \/ DragStartForeign
    \/ DropOnFavourites
    \/ DropOnRemoveZone
    \/ DragEnd

Navigation ==
    \/ \E property \in Range(filteredProperties) : SelectFromCard(property)
    \/ \E property \in Range(favourites) : SelectFromFavourite(property)
    \/ Back

\* The whole application, each criteria field with one value to set besides
\* the empty one.
Next ==
    \/ Startup
    \/ \E v \in {<<>>, Flat} : ChangeType(v)
    \/ \E t \in {<<>>, <<"1", "5", "0", "0", "0", "0">>} : ChangeMinPrice(t)
    \/ \E t \in {<<>>, <<"3", "e", "5">>} : ChangeMaxPrice(t)
    \/ \E v \in {<<>>, <<"3">>} : ChangeBedrooms(v)
    \/ \E t \in {<<>>, <<"n", "w">>} : ChangeLocation(t)
    \/ HandleSearch
    \/ HandleReset
    \/ Favouriting
    \/ DragAndDrop
    \/ Navigation

Spec == Init /\ [][Next]_vars

\* The search form with every field in use, without favourites.
NextSearch ==
    \/ Startup
    \/ \E v \in TypeOptions : ChangeType(v)
    \/ \E t \in PriceTexts : ChangeMinPrice(t)
    \/ \E t \in PriceTexts : ChangeMaxPrice(t)
    \/ \E v \in BedroomOptions : ChangeBedrooms(v)
    \/ \E t \in LocationTexts : ChangeLocation(t)
    \/ HandleSearch
    \/ HandleReset

SpecSearch == Init /\ [][NextSearch]_vars

\* Startup and the favourites by click, from any entry of localStorage.
NextForeign ==
    \/ Startup
    \/ Favouriting
    \/ Navigation

SpecForeign == InitForeign /\ [][NextForeign]_vars

Gallery ==
    \/ NextImage
    \/ PrevImage
    \/ \E index \in ThumbnailIndices : ThumbnailClick(index)
    \/ \E tab \in Tabs : SetActiveTab(tab)

\* The detail view with its gallery and tabs, entered from a list narrowed
\* by type and location.
NextDetail ==
    \/ Startup
    \/ \E v \in {<<>>, Flat} : ChangeType(v)
    \/ \E t \in {<<>>, <<"n", "w">>} : ChangeLocation(t)
    \/ HandleSearch
    \/ HandleReset
    \/ Favouriting
    \/ Navigation
    \/ Gallery

SpecDetail == Init /\ [][NextDetail]_vars

\* Several visits of the page, /properties.json edited between them.
StartupOverTime ==
    \/ \E catalog \in CatalogsOverTime : FetchSuccess(catalog)
    \/ FetchFailure
    \/ Reload

NextOverTime ==
    \/ StartupOverTime
    \/ Favouriting
    \/ DragAndDrop
    \/ Navigation

SpecOverTime == Init /\ [][NextOverTime]_vars

(***************************************************************************)
(* What the criteria mean: the number a criterion text denotes, and the    *)
(* predicates of a property that is within the criteria.                   *)
(***************************************************************************)
RECURSIVE Pow10(_)
Pow10(n) == IF n = 0 THEN 1 ELSE 10 * Pow10(n - 1)

\* The decimal number a valid floating-point text denotes, as
\* sign * mantissa * 10^exponent.
Decimal(s) ==
    LET neg   == s # <<>> /\ Head(s) = "-"
        u     == IF neg THEN Tail(s) ELSE s
        split == CHOOSE ij \in (0..Len(u)) \X (0..Len(u)) :
                    /\ ij[1] <= ij[2]
                    /\ AllDigits(SubSeq(u, 1, ij[1]))
                    /\ IsFraction(SubSeq(u, ij[1] + 1, ij[2]))
                    /\ IsExponent(SubSeq(u, ij[2] + 1, Len(u)))
        int   == SubSeq(u, 1, split[1])
        frac  == SubSeq(u, split[1] + 2, split[2])
        ex    == SubSeq(u, split[2] + 2, Len(u))
        exNeg == ex # <<>> /\ Head(ex) = "-"
        exDig == IF ex # <<>> /\ Head(ex) \in {"+", "-"} THEN Tail(ex) ELSE ex
        e     == (IF exNeg THEN -1 ELSE 1) * DigitsValue(exDig, 10)
    IN  [mantissa |-> (IF neg THEN -1 ELSE 1) * DigitsValue(int \o frac, 10),
         exponent |-> e - Len(frac)]

\* n >= d and n <= d for an integer n and a decimal d.
AtLeast(n, d) ==
    IF d.exponent >= 0 THEN n >= d.mantissa * Pow10(d.exponent)
    ELSE n * Pow10(-d.exponent) >= d.mantissa
AtMost(n, d) ==
    IF d.exponent >= 0 THEN n <= d.mantissa * Pow10(d.exponent)
    ELSE n * Pow10(-d.exponent) <= d.mantissa

\* A criterion field is active when it is not empty.
Active(v) == v # <<>>

\* Property p satisfies every active field of criteria f.
Satisfies(p, f) ==
    /\ Active(f.type) => toLowerCase(p.type) = toLowerCase(f.type)
    /\ Active(f.minPrice) => AtLeast(p.price, Decimal(f.minPrice))
    /\ Active(f.maxPrice) => AtMost(p.price, Decimal(f.maxPrice))
    /\ Active(f.bedrooms) => AtLeast(p.bedrooms, Decimal(f.bedrooms))
    /\ Active(f.location) => includes(toLowerCase(p.location), toLowerCase(f.location))

\* Property p passes every test handleSearch makes for criteria f.
PassesTests(p, f) ==
    /\ Truthy(f.type) => TypeMatches(p, f)
    /\ Truthy(f.minPrice) => MinPriceMatches(p, f)
    /\ Truthy(f.maxPrice) => MaxPriceMatches(p, f)
    /\ Truthy(f.bedrooms) => BedroomsMatch(p, f)
    /\ Truthy(f.location) => LocationMatches(p, f)

\* The ids of a list of properties.
Ids(list) == { list[i].id : i \in DOMAIN list }

(***************************************************************************)
(* Properties.                                                             *)
(***************************************************************************)

\* C1: in every reachable state no two entries of the favourites list have
\* the same property id.
C1_NoDuplicateFavourites ==
    \A i, j \in DOMAIN favourites :
        i # j => favourites[i].id # favourites[j].id

\* A drop on the favourites card has been handled and every property of the
\* catalog is a favourite.
C1_Witness ==
    /\ lastEvent = "dropOnFavourites"
    /\ Len(favourites) = NumProps
    /\ Ids(favourites) = Ids(properties)

\* C2: a drop of the dragged property on the remove zone has exactly the
\* effect of removeFromFavourites(id): afterwards the id is not a favourite,
\* and the list is unchanged when the id was not a favourite before.
C2_DropOnRemoveZoneRemoves ==
    [][(lastEvent' = "dropOnRemoveZone" /\ draggedProperty # Null)
        => favourites' = removeFromFavourites(favourites, draggedProperty.id).value]_vars

\* C3: when a drag that handleDragStart began ends outside the favourites
\* card and the remove zone, draggedProperty is null afterwards and the
\* favourites are unchanged.
C3_AbandonedDragCleared ==
    [][lastEvent' = "dragEnd"
        => draggedProperty' = Null /\ favourites' = favourites]_vars

\* C4: after a search submission the filtered list is exactly the catalog
\* properties that satisfy every active criterion (type, inclusive price
\* bounds, minimum bedrooms, location), in catalog order.
C4_SearchIsExactFilter ==
    lastEvent = "search"
        => filteredProperties = SelectSeq(properties, LAMBDA p : Satisfies(p, filters))

C7_FilteredChangesOnlyOnSubmit ==
    [][/\ lastEvent' = "changeFilter" => filteredProperties' = filteredProperties
       /\ filteredProperties' # filteredProperties
            => lastEvent' \in {"search", "reset", "fetchSuccess", "reload"}]_vars

\* A field has been changed and the list shown is not the list a search with
\* the criteria would give.
C7_Witness ==
    /\ lastEvent = "changeFilter"
    /\ filteredProperties # SearchResults(properties, filters)

\* C8: handleReset leaves the filtered list equal to the catalog, in catalog
\* order, and the five criteria fields empty; favourites and selection are
\* unchanged.
C8_ResetRestoresCatalog ==
    [][lastEvent' = "reset"
        => /\ filteredProperties' = properties
           /\ properties' = properties
           /\ filters' = EmptyFilters
           /\ favourites' = favourites
           /\ selectedProperty' = selectedProperty]_vars

\* A reset has been handled while there are favourites.
C8_Witness ==
    /\ lastEvent = "reset"
    /\ favourites # <<>>
    /\ properties # <<>>
    /\ filteredProperties = properties

\* C9: once an event is handled, the entry 'propertyFavourites' holds the
\* serialization of the whole current favourites list.
C9_StorageHoldsFavourites ==
    storage = JsonStringify(favourites)

\* One favourite has been removed with its X button and others remain.
C9_Witness ==
    /\ lastEvent = "removeButton"
    /\ favourites # <<>>
    /\ storage = JsonStringify(favourites)

\* C10: when the entry holds the snapshot of a favourites list as the page
\* loads, then after the startup effects the favourites list is that list and
\* the entry still holds its snapshot.
C10_ReloadRoundTrip ==
    [][(lastEvent' = "reload" /\ storage = JsonStringify(favourites))
        => (favourites' = favourites /\ storage' = storage)]_vars

\* The page has been loaded again with property 7 the only favourite.
C10_Witness ==
    /\ lastEvent = "reload"
    /\ Ids(favourites) = {7}
    /\ Len(favourites) = 1

\* C11: an entry that is no well-formed snapshot (text that does not parse,
\* or JSON that is no list of property records) is ignored: the favourites
\* list is empty after the mount, and the component never crashes.
C11_MalformedEntryIgnored ==
    /\ lastEvent = "mount" => favourites = <<>>
    /\ View # "crashed"

\* C12: Clear All asks first. When the user declines, the favourites list and
\* the entry in localStorage stay as they were; when the user accepts, the
\* favourites list becomes empty.
C12_ClearAsksFirst ==
    [][/\ lastEvent' = "clearDeclined"
            => (favourites' = favourites /\ storage' = storage)
       /\ lastEvent' = "clearConfirmed" => favourites' = <<>>]_vars

\* Two favourites are still there after a declined Clear All.
C12_Witness ==
    /\ lastEvent = "clearDeclined"
    /\ Len(favourites) = 2
    /\ storage = JsonStringify(favourites)

\* The records whose heart can be clicked: the cards of the result grid, and
\* the property of the detail view.
C13_Hearts ==
    Range(filteredProperties)
        \cup (IF selectedProperty = Null THEN {} ELSE {selectedProperty})

\* C13: two heart clicks in a row on the same property, on its card or in its
\* detail view, leave the property a favourite exactly if it was one before.
C13_ToggleTwiceRestoresMembership ==
    \A property \in C13_Hearts :
        LET once == NextFavourites(favourites,
                        onToggleFavourite(favourites, property))
            twice == NextFavourites(once, onToggleFavourite(once, property))
        IN  /\ IsFavourite(once, property.id) # IsFavourite(favourites, property.id)
            /\ IsFavourite(twice, property.id) = IsFavourite(favourites, property.id)

\* The heart of the detail view has just made the property a favourite, next
\* to another favourite.
C13_Witness ==
    /\ lastEvent = "toggleDetail"
    /\ selectedProperty # Null
    /\ IsFavourite(favourites, selectedProperty.id)
    /\ Len(favourites) = 2

\* What a favourites list becomes when the entry of the card's id is removed
\* and the card is then added by its heart, or by a drag and a drop on the
\* favourites card.
C14_ByHeart(card) ==
    LET removed == NextFavourites(favourites,
                        removeFromFavourites(favourites, card.id))
    IN  NextFavourites(removed, onToggleFavourite(removed, card))

C14_ByDrop(card) ==
    LET removed == NextFavourites(favourites,
                        removeFromFavourites(favourites, card.id))
    IN  NextFavourites(removed, handleDropOnFavourites(removed, card))

\* C14 as stated: for a favourite, removing it and adding it again by the
\* heart of its card or by drag and drop gives back an entry equal in content
\* to the original entry.
C14_RemoveThenAddRestoresEntry ==
    \A i \in DOMAIN favourites : \A card \in Range(filteredProperties) :
        card.id = favourites[i].id
            => /\ favourites[i] \in Range(C14_ByHeart(card))
               /\ favourites[i] \in Range(C14_ByDrop(card))

\* C14 amended: removing a favourite and adding it again by the heart of its
\* card or by drag and drop replaces the entry by the card's record, the
\* other entries kept; the new entry equals the original one in content when
\* the original entry equals the card's record, which an entry loaded from
\* localStorage need not.
C14_RemoveThenAddTakesCard ==
    \A i \in DOMAIN favourites : \A card \in Range(filteredProperties) :
        card.id = favourites[i].id
            => /\ Range(C14_ByHeart(card))
                    = (Range(favourites) \ {favourites[i]}) \cup {card}
               /\ Range(C14_ByDrop(card))
                    = (Range(favourites) \ {favourites[i]}) \cup {card}
               /\ Len(C14_ByHeart(card)) = Len(favourites)
               /\ Len(C14_ByDrop(card)) = Len(favourites)

\* A favourite loaded from localStorage differs from the card of its id,
\* next to another favourite.
C14_Witness ==
    /\ MainIdle
    /\ Len(favourites) = 2
    /\ \E i \in DOMAIN favourites : \E card \in Range(filteredProperties) :
            card.id = favourites[i].id /\ card # favourites[i]

\* nextImage called n times from an index of a gallery of a length.
RECURSIVE C15_NextTimes(_, _, _)
C15_NextTimes(n, index, length) ==
    IF n = 0 THEN index
    ELSE C15_NextTimes(n - 1, nextImage(index, length), length)

\* C15: in a gallery of N >= 1 images the navigation is cyclic: N calls of
\* nextImage come back to the index they started from, and prevImage after
\* nextImage comes back to it too, from every index the gallery can be at.
C15_NavigationIsCyclic ==
    View = "detail" =>
        LET N == Len(DetailImages(selectedProperty))
        IN  N >= 1 =>
                /\ C15_NextTimes(N, currentImageIndex, N) = currentImageIndex
                /\ prevImage(nextImage(currentImageIndex, N), N) = currentImageIndex
                /\ nextImage(prevImage(currentImageIndex, N), N) = currentImageIndex

\* The gallery of three images stands at its last image after a click on the
\* left arrow, which wrapped around from the first.
C15_Witness ==
    /\ View = "detail"
    /\ Len(DetailImages(selectedProperty)) = 3
    /\ currentImageIndex = 2
    /\ lastEvent = "prevImage"

\* C16: when the property of the detail view has no images, the list missing
\* or empty, the gallery shows the default image, never an undefined one, and
\* the arrows, the counter and the thumbnails are hidden.
C16_FallbackImageShown ==
    (/\ View = "detail"
     /\ (~selectedProperty.images.present \/ selectedProperty.images.urls = <<>>))
        => /\ DisplayedImage = DefaultImage
           /\ ~ControlsShown

\* C19: in the detail view of a property with imageCount > 0 images the index
\* of the shown image is at least 0 and less than imageCount, whatever arrows
\* and thumbnails were clicked, and the detail view is entered at index 0.
C19_IndexInRange ==
    /\ View = "detail" =>
            LET imageCount == Len(DetailImages(selectedProperty))
            IN  imageCount > 0 =>
                    /\ currentImageIndex \in 0..(imageCount - 1)
                    /\ DisplayedImage # Undefined
    /\ lastEvent = "select" => currentImageIndex = 0

\* The right arrow has wrapped around from the last of three images to the
\* first.
C19_Witness ==
    /\ View = "detail"
    /\ Len(DetailImages(selectedProperty)) = 3
    /\ lastEvent = "nextImage"
    /\ currentImageIndex = 0

\* C17: from the entry into the detail view to the leaving of it by Back to
\* Search, whatever arrows, thumbnails, tabs and hearts are clicked in
\* between, the filtered list and the criteria stay exactly as they were, and
\* Back to Search shows the list view.
C17_DetailKeepsListState ==
    [][/\ lastEvent' \in {"select", "nextImage", "prevImage", "thumbnail",
                          "tab", "toggleDetail", "back"}
            => /\ filteredProperties' = filteredProperties
               /\ filters' = filters
               /\ properties' = properties
       /\ lastEvent' = "back" => (selectedProperty # Null /\ View' = "main")
       /\ (selectedProperty # Null /\ selectedProperty' # Null)
            => selectedProperty' = selectedProperty]_vars

\* Back from a detail view that was entered from a narrowed list: the list is
\* still narrowed and the criteria still set.
C17_Witness ==
    /\ lastEvent = "back"
    /\ View = "main"
    /\ filters.type = Flat
    /\ Len(filteredProperties) = 1
    /\ Len(favourites) = 1

\* C18: the fetch at startup ends in one of two ways. After a success the
\* catalog and the filtered list are both the whole fetched list and error is
\* unset; after a response that is not ok, a network failure or a body that
\* does not parse, error is set and the catalog is still empty. Error is
\* never set while the catalog is non-empty, and loading is false from the
\* moment the fetch has settled.
C18_FetchOutcomes ==
    /\ [](/\ lastEvent = "fetchSuccess"
              => /\ properties \in Catalogs
                 /\ filteredProperties = properties
                 /\ error = NoError
                 /\ ~loading
          /\ lastEvent = "fetchFailure"
              => /\ error = ErrorMessage
                 /\ properties = <<>>
                 /\ filteredProperties = <<>>
                 /\ ~loading
          /\ error # NoError => properties = <<>>
          /\ loading => (properties = <<>> /\ error = NoError)
          /\ ~loading => (error # NoError \/ properties \in Catalogs))
    /\ [][(~loading /\ lastEvent' # "reload")
            => (~loading' /\ properties' = properties /\ error' = error)]_vars

\* The error view after a failed fetch, reached by a reload of a page that
\* had shown the catalog.
C18_Witness ==
    /\ lastEvent = "fetchFailure"
    /\ View = "error"
    /\ favourites # <<>>

\* C20: what a search submission shows depends on the catalog and the
\* criteria only, not on the list shown before: searches do not compound, and
\* the same criteria submitted twice show what they show submitted once.
C20_SearchFromCatalog ==
    /\ [](/\ lastEvent = "search"
              => filteredProperties
                   = SelectSeq(properties, LAMBDA p : PassesTests(p, filters))
          /\ SearchResults(SearchResults(properties, filters), filters)
                = SearchResults(properties, filters))
    /\ [][(lastEvent = "search" /\ lastEvent' = "search")
            => filteredProperties' = filteredProperties]_vars
    /\ [][lastEvent' = "search"
            => filteredProperties' = SearchResults(properties, filters)]_vars

\* A search by location alone shows the two properties of that location,
\* those of every type.
C20_Witness ==
    /\ lastEvent = "search"
    /\ filters = [EmptyFilters EXCEPT !.location = <<"n", "w">>]
    /\ Ids(filteredProperties) = {7, 9}

====
